---- MODULE Spec2Model ----
(***************************************************************************)
(* Energy model and speed optimizer of ml-modelfinal.py.                   *)
(*                                                                         *)
(* The program computes with IEEE doubles.  The model computes the same    *)
(* formulas, step by step, in fixed point (every quantity is an integer    *)
(* number of the unit named beside it, every division rounds down):        *)
(*   speed_kph            0.1 km/h        speed_mps, wind      mm/s        *)
(*   forces               mN              powers               mW          *)
(*   time_s               s               time_s / 3600        0.001 h     *)
(*   energies, capacity   0.01 Wh         efficiencies         1e-4        *)
(*   battery_efficiency   0.001           current_soc          0.01        *)
(*   remaining SOC        0.1 percentage point (0 .. 1000)                 *)
(* All intermediate values stay below 2^31.                                *)
(***************************************************************************)
EXTENDS Integers, Sequences, FiniteSets

\* ----------------------------------------------------------------- bounds
\* The speeds handed to the energy model and to the interpolator are
\* 2.5 km/h * i, i in -2 .. MaxSpeedIdx (-5 km/h .. 65 km/h).
MaxSpeedIdx == 26
\* Wind speeds are 5 m/s * i, i in 0 .. MaxWindIdx.
MaxWindIdx == 2
\* current_soc values are 0.25 * i, i in 0 .. MaxSocIdx.
MaxSocIdx == 4

\* ------------------------------------------------------ program constants
GRAVITATIONAL_CONSTANT == 981      \* 9.81, in 0.01 m/s^2
MASS == 300                        \* kg
FRONTAL_AREA == 11                 \* 1.1, in 0.1 m^2
DENSITY_AIR == 1225                \* 1.225, in 0.001 kg/m^3
BASE_ROLLING_RESISTANCE == 15      \* 0.015, in 0.001
COEFF_DRAG == 2                    \* 0.2, in 0.1
BATTERY_CAPACITY == 4960           \* Wh
SOLAR_PANEL_EFFICIENCY == 18       \* 0.18, in 0.01
KPH_TO_MPS == 27778                \* 0.27778, in 1e-5
DISTANCE_M == 150000               \* distance_m
PANEL_AREA == 351                  \* 3.51, in 0.01
DRIVETRAIN == 97                   \* 0.97, in 0.01
SEARCH_LO == 100                   \* bounds=(10, 60), in 0.1 km/h
SEARCH_HI == 600

\* Motor efficiencies (1e-4) at the table's speeds (0.1 km/h).
speeds == <<100, 200, 300, 400, 500, 600>>
motor_efficiencies ==
  [k \in {100, 200, 300, 400, 500, 600} |->
     CASE k = 100 -> 4400 [] k = 200 -> 6400 [] k = 300 -> 7400
       [] k = 400 -> 8100 [] k = 500 -> 8500 [] k = 600 -> 9000]

\* --------------------------------------------------------------- helpers
Abs(x) == IF x < 0 THEN 0 - x ELSE x
Max(x, y) == IF x >= y THEN x ELSE y
Min(x, y) == IF x <= y THEN x ELSE y
Sign(x) == IF x > 0 THEN 1 ELSE IF x < 0 THEN 0 - 1 ELSE 0

\* floor(a * b / c) for b >= 0 and c > 0, without forming a * b.
MulDiv(a, b, c) == (a \div c) * b + ((a % c) * b) \div c

\* a / b rounded toward zero, b > 0.
TruncDiv(a, b) == IF a >= 0 THEN a \div b ELSE 0 - ((0 - a) \div b)

\* math.sin(math.radians(g)) in 1e-5, for the gradients of the model.
SinDeg(g) ==
  CASE g = 0 - 5 -> 0 - 8716
    [] g = 0 - 1 -> 0 - 1745
    [] g = 0 -> 0
    [] g = 1 -> 1745
    [] g = 10 -> 17365

\* ---------------------------------------------------- interpolate_efficiency
\* Mutant of Segment: the fraction taken over the upper key instead of over
\* the distance between the keys.
SegmentWrongSpan(i, speed_kph) ==
  LET lower == speeds[i]
      upper == speeds[i + 1]
  IN motor_efficiencies[lower]
       + MulDiv(motor_efficiencies[upper] - motor_efficiencies[lower],
                speed_kph - lower, upper)

\* The linear interpolation of lines 34-36 between speeds[i] and speeds[i + 1].
Segment(i, speed_kph) ==
  LET lower == speeds[i]
      upper == speeds[i + 1]
  IN motor_efficiencies[lower]
       + MulDiv(motor_efficiencies[upper] - motor_efficiencies[lower],
                speed_kph - lower, upper - lower)

\* Mutant of InterpolateFrom: a fall-through that returns the efficiency of the
\* smallest key instead of the largest.
RECURSIVE InterpolateFromClampLow(_, _)
InterpolateFromClampLow(i, speed_kph) ==
  IF i > Len(speeds) - 1
    THEN motor_efficiencies[speeds[1]]
    ELSE IF speeds[i] <= speed_kph /\ speed_kph < speeds[i + 1]
      THEN Segment(i, speed_kph)
      ELSE InterpolateFromClampLow(i + 1, speed_kph)

\* Mutant of InterpolateFrom: the efficiency of the bracketing pair's lower key,
\* without the interpolation.
RECURSIVE InterpolateFromStep(_, _)
InterpolateFromStep(i, speed_kph) ==
  IF i > Len(speeds) - 1
    THEN motor_efficiencies[speeds[Len(speeds)]]
    ELSE IF speeds[i] <= speed_kph /\ speed_kph < speeds[i + 1]
      THEN motor_efficiencies[speeds[i]]
      ELSE InterpolateFromStep(i + 1, speed_kph)

\* The loop of lines 31-36 from index i on, and the fall-through of line 37.
RECURSIVE InterpolateFrom(_, _)
InterpolateFrom(i, speed_kph) ==
  IF i > Len(speeds) - 1
    THEN motor_efficiencies[speeds[Len(speeds)]]
    ELSE IF speeds[i] <= speed_kph /\ speed_kph < speeds[i + 1]
      THEN Segment(i, speed_kph)
      ELSE InterpolateFrom(i + 1, speed_kph)

\* Mutant of interpolate_efficiency: a table lookup with a default of 0 for a
\* speed below the smallest key.
interpolate_efficiency_default0(speed_kph) ==
  IF speed_kph \in DOMAIN motor_efficiencies
    THEN motor_efficiencies[speed_kph]
    ELSE IF speed_kph < speeds[1] THEN 0 ELSE InterpolateFrom(1, speed_kph)

interpolate_efficiency(speed_kph) ==
  IF speed_kph \in DOMAIN motor_efficiencies
    THEN motor_efficiencies[speed_kph]
    ELSE InterpolateFrom(1, speed_kph)

\* ----------------------------------------- calculate_rolling_resistance_coeff
\* In 1e-6.
calculate_rolling_resistance_coeff(temperature) ==
  MulDiv(BASE_ROLLING_RESISTANCE * 1000, 100 + (temperature - 25), 100)

\* ---------------------------------------------------- calculate_remaining_soc
\* The outcome of a call: path names the return statement taken ("speed":
\* line 46, "eff": line 57, "clamp": line 70) or "raise" for the
\* ZeroDivisionError of line 69; val is the returned value.
Outcome(path, val) == [path |-> path, val |-> val]

\* Mutant of drag_force: the wind subtracted from the vehicle's speed.
drag_force_tailwind(speed_mps, wind_speed_mps) ==
  LET relative == speed_mps - wind_speed_mps
  IN MulDiv((relative * relative) \div 1000,
            (COEFF_DRAG * FRONTAL_AREA * DENSITY_AIR) \div 2, 100000)

drag_force(speed_mps, wind_speed_mps) ==
  LET relative == speed_mps + wind_speed_mps
  IN MulDiv((relative * relative) \div 1000,
            (COEFF_DRAG * FRONTAL_AREA * DENSITY_AIR) \div 2, 100000)

solar_power(temperature, ghi10, ghi90) ==
  LET raw == Max(0, MulDiv(ghi10 + ghi90, PANEL_AREA * SOLAR_PANEL_EFFICIENCY, 20))
  IN MulDiv(raw, 1000 - 4 * Max(0, Abs(temperature - 25)), 1000)

\* Mutant of remaining_energy: half of the stored charge counted.
remaining_energy_half(current_soc, battery_capacity_wh, used, generated) ==
  MulDiv(battery_capacity_wh, current_soc, 200) - used + generated

\* remaining_wh of line 68.
remaining_energy(current_soc, battery_capacity_wh, used, generated) ==
  MulDiv(battery_capacity_wh, current_soc, 100) - used + generated

\* (remaining_wh / battery_capacity_wh) * 100, in 0.1 percentage point.
soc_percent(remaining_wh, battery_capacity_wh) ==
  IF battery_capacity_wh > 0
    THEN MulDiv(remaining_wh, 1000, battery_capacity_wh)
    ELSE MulDiv(0 - remaining_wh, 1000, 0 - battery_capacity_wh)

\* Mutant of clamp_soc: the upper limit left out.
clamp_soc_no_ceiling(remaining_soc) == Max(0, remaining_soc)

clamp_soc(remaining_soc) == Max(0, Min(remaining_soc, 1000))

\* Lines 47-70: the call once speed_mps is known to be positive.
soc_at_positive_speed(speed_kph, speed_mps, e) ==
  LET time_s == (DISTANCE_M * 1000) \div speed_mps
      rolling_resistance ==
        MulDiv(calculate_rolling_resistance_coeff(e.temperature),
               (GRAVITATIONAL_CONSTANT * MASS) \div 100, 1000)
      drag == drag_force(speed_mps, 1000 * e.wind_speed_mps)
      gradient_force ==
        MulDiv(SinDeg(e.gradient_deg), (MASS * GRAVITATIONAL_CONSTANT) \div 100, 100)
      resistive_force == rolling_resistance + gradient_force + drag
      motor_efficiency == interpolate_efficiency(speed_kph)
  IN IF motor_efficiency = 0 THEN Outcome("eff", 0)
     ELSE
     LET motor_power_watt ==
           MulDiv(MulDiv(resistive_force, speed_mps, 1000), 10000,
                  MulDiv(motor_efficiency, DRIVETRAIN, 100))
         solar == solar_power(e.temperature, e.ghi10, e.ghi90)
         battery_capacity_wh == (BATTERY_CAPACITY * e.battery_efficiency) \div 10
         hours == MulDiv(time_s, 1000, 3600)
         energy_used_wh == MulDiv(motor_power_watt, hours, 10000)
         energy_generated_wh == MulDiv(solar, hours, 10000)
         remaining_wh ==
           remaining_energy(e.current_soc, battery_capacity_wh,
                            energy_used_wh, energy_generated_wh)
     IN IF battery_capacity_wh = 0 THEN Outcome("raise", 0)
        ELSE Outcome("clamp",
                     clamp_soc(soc_percent(remaining_wh, battery_capacity_wh)))

\* Mutant of calculate_remaining_soc: the guard written speed_mps < 0, so that
\* a speed of 0 goes on to distance_m / speed_mps, which raises.
calculate_remaining_soc_strict_guard(speed_kph, e) ==
  LET speed_mps == MulDiv(speed_kph, KPH_TO_MPS, 1000)
  IN IF speed_mps < 0 THEN Outcome("speed", 0)
     ELSE IF speed_mps = 0 THEN Outcome("raise", 0)
     ELSE soc_at_positive_speed(speed_kph, speed_mps, e)

calculate_remaining_soc(speed_kph, e) ==
  LET speed_mps == MulDiv(speed_kph, KPH_TO_MPS, 1000)
  IN IF speed_mps <= 0 THEN Outcome("speed", 0)
     ELSE soc_at_positive_speed(speed_kph, speed_mps, e)

\* ------------------------------------------ minimize_scalar(method='bounded')
\* SciPy's bounded Brent search (golden section with parabolic steps), on the
\* model's 0.1 km/h grid: the absolute tolerance tol1 (xatol / 3 plus a
\* relative term) is one grid step.
tol1 == 1
tol2 == 2 * tol1
maxiter == 500
golden_mean == 382                 \* 0.5 * (3 - sqrt(5)), in 0.001

objective(speed_kph, e) == 0 - calculate_remaining_soc(speed_kph, e).val

OptInit(e) ==
  LET fulc == SEARCH_LO + TruncDiv(golden_mean * (SEARCH_HI - SEARCH_LO), 1000)
      fx == objective(fulc, e)
  IN [a |-> SEARCH_LO, b |-> SEARCH_HI, xf |-> fulc, fx |-> fx,
      nfc |-> fulc, fnfc |-> fx, fulc |-> fulc, ffulc |-> fx,
      e |-> 0, rat |-> 0, num |-> 1]

\* The while condition, doubled: abs(xf - xm) > tol2 - 0.5 * (b - a).
OptContinue(o) ==
  /\ Abs(2 * o.xf - (o.a + o.b)) > 2 * tol2 - (o.b - o.a)
  /\ o.num < maxiter

\* The step chosen by one pass of the loop: [e, rat].
OptChoose(o) ==
  LET xm2 == o.a + o.b
      goldenStep ==
        LET e == IF 2 * o.xf >= xm2 THEN o.a - o.xf ELSE o.b - o.xf
        IN [e |-> e, rat |-> TruncDiv(golden_mean * e, 1000)]
  IN IF Abs(o.e) > tol1
       THEN LET r0 == (o.xf - o.nfc) * (o.fx - o.ffulc)
                q0 == (o.xf - o.fulc) * (o.fx - o.fnfc)
                p0 == (o.xf - o.fulc) * q0 - (o.xf - o.nfc) * r0
                q1 == 2 * (q0 - r0)
                p == IF q1 > 0 THEN 0 - p0 ELSE p0
                q == Abs(q1)
                r == o.e
            IN IF /\ 2 * Abs(p) < Abs(q * r)
                  /\ p > q * (o.a - o.xf)
                  /\ p < q * (o.b - o.xf)
                 THEN LET rat == TruncDiv(p, q)
                          x == o.xf + rat
                      IN IF (x - o.a) < tol2 \/ (o.b - x) < tol2
                           THEN LET d == xm2 - 2 * o.xf
                                    si == Sign(d) + (IF d = 0 THEN 1 ELSE 0)
                                IN [e |-> o.rat, rat |-> tol1 * si]
                           ELSE [e |-> o.rat, rat |-> rat]
                 ELSE goldenStep
       ELSE goldenStep

\* One pass of the loop: the step, the evaluation of the objective at the new
\* point and the update of the bracket and of the three best points.
OptStep(o, env0) ==
  LET c == OptChoose(o)
      si == Sign(c.rat) + (IF c.rat = 0 THEN 1 ELSE 0)
      x == o.xf + si * Max(Abs(c.rat), tol1)
      fu == objective(x, env0)
      base == [o EXCEPT !.e = c.e, !.rat = c.rat, !.num = o.num + 1]
  IN IF fu <= o.fx
       THEN [base EXCEPT !.a = IF x >= o.xf THEN o.xf ELSE o.a,
                         !.b = IF x >= o.xf THEN o.b ELSE o.xf,
                         !.fulc = o.nfc, !.ffulc = o.fnfc,
                         !.nfc = o.xf, !.fnfc = o.fx,
                         !.xf = x, !.fx = fu]
       ELSE LET narrowed == [base EXCEPT !.a = IF x < o.xf THEN x ELSE o.a,
                                         !.b = IF x < o.xf THEN o.b ELSE x]
            IN IF fu <= o.fnfc \/ o.nfc = o.xf
                 THEN [narrowed EXCEPT !.fulc = o.nfc, !.ffulc = o.fnfc,
                                       !.nfc = x, !.fnfc = fu]
                 ELSE IF fu <= o.ffulc \/ o.fulc = o.xf \/ o.fulc = o.nfc
                   THEN [narrowed EXCEPT !.fulc = x, !.ffulc = fu]
                   ELSE narrowed

\* ------------------------------------------------------- find_optimal_speed
\* Mutant of FindOptimalResult: result.fun returned without the negation.
FindOptimalResultUnnegated(o) == [optimal_speed |-> o.xf, max_remaining_soc |-> o.fx]

\* optimal_speed = result.x; max_remaining_soc = -result.fun.
FindOptimalResult(o) == [optimal_speed |-> o.xf, max_remaining_soc |-> 0 - o.fx]

\* ------------------------------------------------------------ the inputs
SpeedGrid == {25 * i : i \in (0 - 2) .. MaxSpeedIdx}
Gradients == {0 - 5, 0 - 1, 0, 1, 10}
Temperatures == {5, 25, 45}
Winds == {5 * i : i \in 0 .. MaxWindIdx}
Irradiances == {<<0, 0>>, <<350, 450>>, <<800, 800>>}
BatteryEfficiencies == {0 - 500, 0, 950}
Socs == {25 * i : i \in 0 .. MaxSocIdx}

Envs ==
  {[gradient_deg |-> g, temperature |-> t, wind_speed_mps |-> w,
    ghi10 |-> i[1], ghi90 |-> i[2], battery_efficiency |-> be, current_soc |-> c] :
     g \in Gradients, t \in Temperatures, w \in Winds, i \in Irradiances,
     be \in BatteryEfficiencies, c \in Socs}

\* An EnvironmentState of the data model: wind >= 0, battery efficiency in (0, 1].
ValidEnv(e) == e.wind_speed_mps >= 0 /\ e.battery_efficiency > 0

NoOutcome == Outcome("none", 0)
NoOpt == [a |-> 0, b |-> 0, xf |-> 0, fx |-> 0, nfc |-> 0, fnfc |-> 0,
          fulc |-> 0, ffulc |-> 0, e |-> 0, rat |-> 0, num |-> 0]
NoResult == [optimal_speed |-> 0, max_remaining_soc |-> 0]
NoRow == [actual_speed |-> 0, actual_remaining_soc |-> 0,
          soc_loss_from_suboptimal |-> 0, speed_difference |-> 0]

\* --------------------------------------------------------------- the state
VARIABLES
  env,      \* the environment and vehicle state of the scenario
  pc,       \* "ready", "interp", "soc", "opt", "done", "row"
  speed,    \* the speed_kph argument of the last direct call
  eff,      \* what interpolate_efficiency returned
  ret,      \* the outcome of calculate_remaining_soc
  opt,      \* the locals of the bounded search
  result,   \* what find_optimal_speed returned
  row       \* the comparison columns of generate_dataset

vars == <<env, pc, speed, eff, ret, opt, result, row>>

Init ==
  /\ env \in Envs
  /\ pc = "ready"
  /\ speed = 0
  /\ eff = 0
  /\ ret = NoOutcome
  /\ opt = NoOpt
  /\ result = NoResult
  /\ row = NoRow

\* interpolate_efficiency(s)
CallInterpolate ==
  /\ pc = "ready"
  /\ \E s \in SpeedGrid :
       /\ speed' = s
       /\ eff' = interpolate_efficiency(s)
  /\ pc' = "interp"
  /\ UNCHANGED <<env, ret, opt, result, row>>

\* calculate_remaining_soc(s, env...)
CallRemainingSoc ==
  /\ pc = "ready"
  /\ \E s \in SpeedGrid :
       /\ speed' = s
       /\ ret' = calculate_remaining_soc(s, env)
  /\ pc' = "soc"
  /\ UNCHANGED <<env, eff, opt, result, row>>

\* find_optimal_speed: minimize_scalar starts (its first evaluation).  The
\* caller, generate_dataset, passes an environment of the data model: the
\* battery efficiency of line 107 is positive.
OptStart ==
  /\ pc = "ready"
  /\ ValidEnv(env)
  /\ opt' = OptInit(env)
  /\ pc' = "opt"
  /\ UNCHANGED <<env, speed, eff, ret, result, row>>

\* One pass of minimize_scalar's loop.
OptIter ==
  /\ pc = "opt"
  /\ OptContinue(opt)
  /\ opt' = OptStep(opt, env)
  /\ UNCHANGED <<env, pc, speed, eff, ret, result, row>>

\* The loop ends and find_optimal_speed returns.
OptReturn ==
  /\ pc = "opt"
  /\ ~OptContinue(opt)
  /\ result' = FindOptimalResult(opt)
  /\ pc' = "done"
  /\ UNCHANGED <<env, speed, eff, ret, opt, row>>

\* generate_dataset, steps 4 and 5: the model at an "actual" speed of
\* [10, 60] km/h and the comparison with the optimizer's answer.
EvalActual ==
  /\ pc = "done"
  /\ \E s \in {x \in SpeedGrid : SEARCH_LO <= x /\ x <= SEARCH_HI} :
       LET actual == calculate_remaining_soc(s, env).val
       IN row' = [actual_speed |-> s,
                  actual_remaining_soc |-> actual,
                  soc_loss_from_suboptimal |-> result.max_remaining_soc - actual,
                  speed_difference |-> Abs(result.optimal_speed - s)]
  /\ pc' = "row"
  /\ UNCHANGED <<env, speed, eff, ret, opt, result>>

Next ==
  \/ CallInterpolate
  \/ CallRemainingSoc
  \/ OptStart
  \/ OptIter
  \/ OptReturn
  \/ EvalActual

Spec == Init /\ [][Next]_vars

\* ================================================================ claims

WithWind(e, w) == [e EXCEPT !.wind_speed_mps = w]
WithSoc(e, c) == [e EXCEPT !.current_soc = c]
TableKeys == {speeds[i] : i \in 1 .. Len(speeds)}

\* C1, as stated: for any finite inputs the call of calculate_remaining_soc
\* completes and its result is in [0, 100].
C1_AnyFiniteInputs ==
  pc = "soc" => ret.path # "raise" /\ 0 <= ret.val /\ ret.val <= 1000

\* C1, amended: the call completes with a result in [0, 100] unless
\* battery_efficiency is 0 and speed_kph is positive; in that one case line 69
\* divides by a zero capacity and the call raises instead of returning.
C1_ClampInvariant ==
  pc = "soc" =>
    IF env.battery_efficiency = 0 /\ speed > 0
      THEN ret.path = "raise"
      ELSE ret.path \in {"speed", "eff", "clamp"} /\ 0 <= ret.val /\ ret.val <= 1000

\* A call whose unclamped percentage is far below 0 (a 10 degree climb) and one
\* with a negative battery efficiency both end in the clamp.
C1_Witness ==
  /\ pc = "soc"
  /\ speed > 0
  /\ env.gradient_deg = 10
  /\ env.battery_efficiency < 0
  /\ ret = Outcome("clamp", 1000)

\* C2: calculate_remaining_soc returns 0 whenever speed_kph <= 0, whatever the
\* other arguments are, by the return of line 46: before any force, efficiency
\* or capacity is computed, so also when battery_efficiency is 0.
C2_NonPositiveSpeedReturnsZero ==
  pc = "soc" /\ speed <= 0 => ret = Outcome("speed", 0)

C2_Witness ==
  /\ pc = "soc"
  /\ speed = 0
  /\ env.battery_efficiency = 0
  /\ ret = Outcome("speed", 0)

\* C3: find_optimal_speed returns an optimal_speed in [10, 60] and a
\* max_remaining_soc that is calculate_remaining_soc at that speed in the same
\* environment, hence in [0, 100].
C3_OptimizerConsistent ==
  pc \in {"done", "row"} =>
    /\ SEARCH_LO <= result.optimal_speed
    /\ result.optimal_speed <= SEARCH_HI
    /\ result.max_remaining_soc = calculate_remaining_soc(result.optimal_speed, env).val
    /\ 0 <= result.max_remaining_soc
    /\ result.max_remaining_soc <= 1000

\* The search has taken parabolic and golden steps and returns an interior
\* optimum with a SOC strictly inside (0, 100).
C3_Witness ==
  /\ pc = "done"
  /\ opt.num > 8
  /\ result.optimal_speed > 200
  /\ result.optimal_speed < 400
  /\ result.max_remaining_soc > 0
  /\ result.max_remaining_soc < 1000

\* C4: the max_remaining_soc that find_optimal_speed returns is at least
\* calculate_remaining_soc(s) for every speed s of a grid over [10, 60], the
\* endpoints included, up to the solver's tolerance (taken here as 5
\* percentage points, far more than the search's resolution accounts for):
\* soc_loss_from_suboptimal is never below minus the tolerance.
C4_GlobalOptimum ==
  pc = "row" => row.soc_loss_from_suboptimal >= 0 - 50

\* C5: interpolate_efficiency is the piecewise-linear function of the table:
\* the table's value at a key (0.74 at 30, 0.90 at 60), and between adjacent
\* keys lower <= speed < upper the value
\* eff[lower] + (eff[upper] - eff[lower]) * (speed - lower) / (upper - lower).
C5_PiecewiseLinear ==
  pc = "interp" =>
    /\ speed \in TableKeys => eff = motor_efficiencies[speed]
    /\ speed = 300 => eff = 7400
    /\ speed = 600 => eff = 9000
    /\ \A i \in 1 .. Len(speeds) - 1 :
         speeds[i] <= speed /\ speed < speeds[i + 1] =>
           (eff - motor_efficiencies[speeds[i]]) * (speeds[i + 1] - speeds[i])
             = (motor_efficiencies[speeds[i + 1]] - motor_efficiencies[speeds[i]])
                 * (speed - speeds[i])

\* 32.5 km/h, between the keys 30 and 40: 0.74 + 0.07 * 0.25.
C5_Witness == pc = "interp" /\ speed = 325 /\ eff = 7575

\* C6: interpolate_efficiency is non-decreasing over [10, 60], and at each of
\* the keys 20, 30, 40, 50 and 60 the value returned is the value the segment
\* below reaches at the key (no jump).
C6_MonotoneContinuous ==
  pc = "interp" /\ SEARCH_LO <= speed /\ speed <= SEARCH_HI =>
    /\ \A b \in SpeedGrid :
         speed <= b /\ b <= SEARCH_HI => eff <= interpolate_efficiency(b)
    /\ \A i \in 1 .. Len(speeds) - 1 :
         speed = speeds[i + 1] => eff = Segment(i, speed)

\* The call at the key 50, where the slope of the table changes from 0.004 to
\* 0.005 per km/h.
C6_Witness ==
  /\ pc = "interp"
  /\ speed = 500
  /\ eff = 8500
  /\ interpolate_efficiency(475) < eff
  /\ eff < interpolate_efficiency(525)

\* C7: for a speed below the smallest key (10) and for a speed at or above the
\* largest (60) interpolate_efficiency returns the efficiency of the largest
\* key, 0.90.
C7_ClampHigh ==
  pc = "interp" /\ (speed < 100 \/ speed >= 600) => eff = 9000

\* 5 km/h, below the table.
C7_Witness == pc = "interp" /\ speed = 50 /\ eff = 9000

\* C8: for a positive speed and an environment of the data model (wind >= 0,
\* battery efficiency in (0, 1]), a stronger wind with everything else fixed
\* never gives a higher remaining SOC.
C8_WindNeverHelps ==
  pc = "soc" /\ speed > 0 /\ ValidEnv(env) =>
    \A w2 \in Winds :
      w2 > env.wind_speed_mps =>
        calculate_remaining_soc(speed, WithWind(env, w2)).val <= ret.val

\* A call whose result a stronger wind strictly lowers.
C8_Witness ==
  /\ pc = "soc"
  /\ speed > 0
  /\ ValidEnv(env)
  /\ ret.val < 1000
  /\ \E w2 \in Winds :
       /\ w2 > env.wind_speed_mps
       /\ 0 < calculate_remaining_soc(speed, WithWind(env, w2)).val
       /\ calculate_remaining_soc(speed, WithWind(env, w2)).val < ret.val

\* C9, as stated: for a positive speed and a fixed environment a higher
\* current_soc gives a strictly higher remaining SOC.
C9_StrictlyIncreasing ==
  pc = "soc" /\ speed > 0 /\ ValidEnv(env) =>
    \A c2 \in Socs :
      c2 > env.current_soc /\ c2 <= 100 =>
        calculate_remaining_soc(speed, WithSoc(env, c2)).val > ret.val

\* C9, amended: a higher current_soc never gives a lower remaining SOC, and
\* when neither result is clamped (both strictly between 0 and 100) the
\* increase is 100 percentage points per unit of current_soc.
C9_IncreasingUnlessClamped ==
  pc = "soc" /\ speed > 0 /\ ValidEnv(env) =>
    \A c2 \in Socs :
      c2 > env.current_soc =>
        LET r2 == calculate_remaining_soc(speed, WithSoc(env, c2)).val
        IN /\ r2 >= ret.val
           /\ (0 < ret.val /\ r2 < 1000) => r2 - ret.val = 10 * (c2 - env.current_soc)

\* A call whose result is unclamped, as is the result at a higher current_soc.
C9_Witness ==
  /\ pc = "soc"
  /\ speed > 0
  /\ ValidEnv(env)
  /\ 0 < ret.val
  /\ \E c2 \in Socs :
       /\ c2 > env.current_soc
       /\ calculate_remaining_soc(speed, WithSoc(env, c2)).val < 1000

\* C10: interpolate_efficiency returns a fraction in [0.44, 0.90] for every
\* speed, and no call of calculate_remaining_soc returns by the branch of
\* line 57 (motor_efficiency == 0).
C10_EfficiencyNeverZero ==
  /\ pc = "interp" => 4400 <= eff /\ eff <= 9000
  /\ pc = "soc" => ret.path # "eff"

\* A call of calculate_remaining_soc at a positive speed below the table, which
\* goes past line 57 to the clamp.
C10_Witness ==
  /\ pc = "soc"
  /\ speed > 0
  /\ speed < 100
  /\ ret.path = "clamp"

====
